---- MODULE Spec2Model ----
(***************************************************************************)
(* Model of the local-ai chat client: the streaming session controller     *)
(* (startConversationSession), the context assembler                       *)
(* (prepareConversationWithContext), the message store and its REST        *)
(* handlers, and the similarity index (cosineSimilarity,                   *)
(* getSimilarMessages).                                                    *)
(*                                                                         *)
(* Text is a sequence of one-character strings, so that trimming and       *)
(* concatenation are computed and not assumed.                             *)
(***************************************************************************)
EXTENDS Integers, Sequences, FiniteSets, TLC

\* ------------------------------------------------------------------ bounds
MaxSessions == 1      \* sessions started in one behaviour
MaxAcc      == 2      \* characters accumulated from one stream
MaxHistory  == 2      \* rows of the tables drawn for the context assembler
MaxEmb      == 2      \* rows of message_embeddings
MaxPool     == 2      \* largest candidatePoolSize asked of getSimilarMessages
MaxTopK     == 2      \* largest topK asked of getSimilarMessages
MaxComp     == 1      \* largest magnitude of a vector component
MaxRows     == 3      \* rows of the messages table the handlers may fill
MaxFiles    == 1      \* rows of file_uploads
MaxLines    == 3      \* lines one recorded stream carries
MaxChunk    == 2      \* lines one chunk of a recorded stream carries

\* ------------------------------------------------------- program constants
ContextLimit == 10    \* history window asked of GET /api/chats/:id/context
PageSize     == 50    \* page size loadChatMessages asks of GET /api/chats/:id/messages
DefaultLimit == 50    \* limit of that endpoint when pageSize is missing or 0

\* --------------------------------------------------------------- text
Deltas    == {<<"a">>, <<" ">>}          \* non-empty message.content values
UserTexts == {<<"q", " ">>}              \* texts with a non-empty trim()
SystemInstruction == <<"S">>             \* the fixed system instruction text
FileContent == <<"F">>                   \* extracted text of a staged file

RECURSIVE TrimStart(_)
TrimStart(s) ==
  IF s = <<>> THEN s
  ELSE IF Head(s) = " " THEN TrimStart(Tail(s)) ELSE s

RECURSIVE TrimEnd(_)
TrimEnd(s) ==
  IF s = <<>> THEN s
  ELSE IF s[Len(s)] = " " THEN TrimEnd(SubSeq(s, 1, Len(s) - 1)) ELSE s

\* String.prototype.trim as used by the PUT handler
Trim(s) == TrimEnd(TrimStart(s))

\* ------------------------------------------- IEEE-754 double arithmetic
\* A JavaScript number is a double: 53 significant bits, round to nearest,
\* ties to even.  A natural number is a little-endian sequence of limbs; a
\* finite non-zero double is sign * m * 2^e with 2^52 <= m < 2^53.
LimbBits     == 14
LimbBase     == 16384
MantissaBits == 53
MantissaLimbs == 4

RECURSIVE BigFrom(_, _)
BigFrom(n, len) ==
  IF len = 0 THEN <<>> ELSE <<n % LimbBase>> \o BigFrom(n \div LimbBase, len - 1)

Big(n) == BigFrom(n, MantissaLimbs)

RECURSIVE IsZero(_)
IsZero(x) == x = <<>> \/ (Head(x) = 0 /\ IsZero(Tail(x)))

RECURSIVE Pow2From(_, _)
Pow2From(k, len) ==
  IF len = 0 THEN <<>>
  ELSE <<IF k \div LimbBits = 0 THEN 2 ^ k ELSE 0>> \o Pow2From(k - LimbBits, len - 1)

MantissaMin == Pow2From(MantissaBits - 1, MantissaLimbs)
MantissaEnd == Pow2From(MantissaBits, MantissaLimbs)

\* x >= y for two numbers of the same length
RECURSIVE GeqFrom(_, _, _)
GeqFrom(x, y, i) ==
  IF i = 0 THEN TRUE
  ELSE IF x[i] # y[i] THEN x[i] > y[i]
  ELSE GeqFrom(x, y, i - 1)

Geq(x, y) == GeqFrom(x, y, Len(x))

RECURSIVE SubFrom(_, _, _, _)
SubFrom(x, y, i, borrow) ==
  IF i > Len(x) THEN <<>>
  ELSE LET d == x[i] - y[i] - borrow IN
       IF d < 0 THEN <<d + LimbBase>> \o SubFrom(x, y, i + 1, 1)
       ELSE <<d>> \o SubFrom(x, y, i + 1, 0)

Sub(x, y) == SubFrom(x, y, 1, 0)

\* k * x + carry
RECURSIVE ScaleFrom(_, _, _, _)
ScaleFrom(x, k, i, carry) ==
  IF i > Len(x) THEN <<>>
  ELSE LET t == k * x[i] + carry IN
       <<t % LimbBase>> \o ScaleFrom(x, k, i + 1, t \div LimbBase)

Dbl(x) == ScaleFrom(x, 2, 1, 0)
Inc(x) == ScaleFrom(x, 1, 1, 1)

RECURSIVE HalfFrom(_, _)
HalfFrom(x, i) ==
  IF i > Len(x) THEN <<>>
  ELSE <<(x[i] \div 2)
         + (IF i < Len(x) THEN (x[i + 1] % 2) * (LimbBase \div 2) ELSE 0)>>
       \o HalfFrom(x, i + 1)

Half(x) == HalfFrom(x, 1)
Odd(x) == x[1] % 2 = 1
UpLimb(x) == <<0>> \o SubSeq(x, 1, Len(x) - 1)
DownLimb(x) == Tail(x) \o <<0>>

RECURSIVE ColSum(_, _, _, _)
ColSum(x, y, k, i) ==
  IF i > Len(x) \/ i > k THEN 0
  ELSE (IF k + 1 - i <= Len(y) THEN x[i] * y[k + 1 - i] ELSE 0) + ColSum(x, y, k, i + 1)

RECURSIVE MulFrom(_, _, _, _)
MulFrom(x, y, k, carry) ==
  IF k > Len(x) + Len(y) THEN <<>>
  ELSE LET t == ColSum(x, y, k, 1) + carry IN
       <<t % LimbBase>> \o MulFrom(x, y, k + 1, t \div LimbBase)

\* the exact product, Len(x) + Len(y) limbs long
Mul(x, y) == MulFrom(x, y, 1, 0)

RECURSIVE BitsOf(_)
BitsOf(n) == IF n = 0 THEN 0 ELSE 1 + BitsOf(n \div 2)

RECURSIVE BitLenFrom(_, _)
BitLenFrom(x, i) ==
  IF i = 0 THEN 0
  ELSE IF x[i] # 0 THEN (i - 1) * LimbBits + BitsOf(x[i])
  ELSE BitLenFrom(x, i - 1)

BitLen(x) == BitLenFrom(x, Len(x))

Zero     == [cls |-> "zero",     sign |-> 0, m |-> Big(0), e |-> 0]
NaN      == [cls |-> "nan",      sign |-> 0, m |-> Big(0), e |-> 0]
Infinity == [cls |-> "infinity", sign |-> 1, m |-> Big(0), e |-> 0]
One      == [cls |-> "finite",   sign |-> 1, m |-> MantissaMin, e |-> 1 - MantissaBits]

\* x * 2^e (with a sticky remainder below it) brought to MantissaBits + 1 bits
RECURSIVE Normalize(_)
Normalize(r) ==
  LET excess == BitLen(r.x) - (MantissaBits + 1) IN
  IF excess >= LimbBits
    THEN Normalize([x |-> DownLimb(r.x), e |-> r.e + LimbBits,
                    sticky |-> r.sticky \/ r.x[1] # 0])
  ELSE IF excess > 0
    THEN Normalize([x |-> Half(r.x), e |-> r.e + 1, sticky |-> r.sticky \/ Odd(r.x)])
  ELSE IF excess <= 0 - LimbBits /\ r.x[Len(r.x)] = 0
    THEN Normalize([x |-> UpLimb(r.x), e |-> r.e - LimbBits, sticky |-> r.sticky])
  ELSE IF excess < 0
    THEN Normalize([x |-> Dbl(r.x), e |-> r.e - 1, sticky |-> r.sticky])
  ELSE r

\* round to nearest, ties to even
Round(sign, x, e, sticky) ==
  IF IsZero(x) THEN Zero
  ELSE LET n  == Normalize([x |-> x, e |-> e, sticky |-> sticky])
           m  == SubSeq(Half(n.x), 1, MantissaLimbs)
           up == Odd(n.x) /\ (n.sticky \/ Odd(m))
           r  == IF up THEN Inc(m) ELSE m
       IN  IF r = MantissaEnd
           THEN [cls |-> "finite", sign |-> sign, m |-> MantissaMin, e |-> n.e + 2]
           ELSE [cls |-> "finite", sign |-> sign, m |-> r, e |-> n.e + 1]

RECURSIVE ISqrt(_, _)
ISqrt(n, r) == IF (r + 1) * (r + 1) > n THEN r ELSE ISqrt(n, r + 1)

\* one binary digit of the square root
SqrtStep(s) ==
  IF Geq(s.root, MantissaEnd) THEN s
  ELSE LET rem4  == Dbl(Dbl(s.rem))
           trial == Inc(Dbl(Dbl(s.root)))
       IN  IF Geq(rem4, trial)
           THEN [root |-> Inc(Dbl(s.root)), rem |-> Sub(rem4, trial), k |-> s.k + 1]
           ELSE [root |-> Dbl(s.root), rem |-> rem4, k |-> s.k + 1]

RECURSIVE SqrtLoop(_)
SqrtLoop(s) ==
  IF Geq(s.root, MantissaEnd) THEN s
  ELSE SqrtLoop(SqrtStep(SqrtStep(SqrtStep(SqrtStep(s)))))

\* Math.sqrt of a natural number held exactly
Sqrt(n) ==
  IF n = 0 THEN Zero
  ELSE LET r == ISqrt(n, 0)
           s == SqrtLoop([root |-> Big(r), rem |-> Big(n - r * r), k |-> 0])
       IN  Round(1, s.root, 0 - s.k, ~IsZero(s.rem))

\* a * b of two doubles
Times(a, b) ==
  IF a.cls = "zero" \/ b.cls = "zero" THEN Zero
  ELSE Round(a.sign * b.sign, Mul(a.m, b.m), a.e + b.e, FALSE)

\* one binary digit of the quotient
DivStep(s, pm) ==
  IF Geq(s.q, MantissaEnd) THEN s
  ELSE LET rem2 == Dbl(s.rem) IN
       IF Geq(rem2, pm)
       THEN [rem |-> Sub(rem2, pm), q |-> Inc(Dbl(s.q)), t |-> s.t + 1]
       ELSE [rem |-> rem2, q |-> Dbl(s.q), t |-> s.t + 1]

RECURSIVE DivLoop(_, _)
DivLoop(s, pm) ==
  IF Geq(s.q, MantissaEnd) THEN s
  ELSE IF IsZero(s.q) /\ s.rem[Len(s.rem)] = 0 /\ ~Geq(UpLimb(s.rem), pm)
    THEN DivLoop([rem |-> UpLimb(s.rem), q |-> s.q, t |-> s.t + LimbBits], pm)
  ELSE DivLoop(DivStep(DivStep(DivStep(DivStep(s, pm), pm), pm), pm), pm)

Abs(n) == IF n < 0 THEN 0 - n ELSE n

\* d / p for an integer d held exactly and a double p >= 0
Over(d, p) ==
  IF p.cls = "zero" THEN (IF d = 0 THEN NaN ELSE Infinity)
  ELSE IF d = 0 THEN Zero
  ELSE LET s == DivLoop([rem |-> Big(Abs(d)), q |-> Big(0), t |-> 0], p.m)
       IN  Round(IF d < 0 THEN 0 - 1 ELSE 1, s.q, 0 - s.t - p.e, ~IsZero(s.rem))

\* a < b for two doubles that are zero or finite
Less(a, b) ==
  IF a.sign # b.sign THEN a.sign < b.sign
  ELSE IF a.sign = 0 THEN FALSE
  ELSE LET lt == IF a.e # b.e THEN a.e < b.e ELSE (a.m # b.m /\ Geq(b.m, a.m))
           gt == IF a.e # b.e THEN a.e > b.e ELSE (a.m # b.m /\ Geq(a.m, b.m))
       IN  IF a.sign = 1 THEN lt ELSE gt

\* ------------------------------------------------------------- variables
VARIABLES
  dbChats,          \* chats table: set of chat ids
  dbMessages,       \* messages table: sequence of rows, id = index
  currentChatId,    \* UI state, 0 = null
  messages,         \* UI state: the in-memory message list
  isLoading,        \* UI state
  abortController,  \* UI state: 0 = null, else the session owning the controller
  uploadedFiles,    \* UI state: TRUE when a file is staged
  use_memory,       \* settings.use_memory
  sess,             \* one record per startConversationSession invocation
  nSessions,        \* sessions started so far
  dbEmbeddings,     \* message_embeddings table: sequence of rows, id = index
  simCall,          \* the latest operation on the similarity index
  dbFiles,          \* file_uploads table: sequence of rows, id = index
  embedTasks,       \* detached embedding requests of the POST and PUT handlers
  messageOffset,    \* UI state: messages counted by the page loads
  hasMoreMessages   \* UI state: hasMore of the last page load

vars == <<dbChats, dbMessages, currentChatId, messages, isLoading,
          abortController, uploadedFiles, use_memory, sess, nSessions,
          dbEmbeddings, simCall, dbFiles, embedTasks,
          messageOffset, hasMoreMessages>>

\* the sessions a behaviour starts, and one that may already be in flight
\* when the behaviour begins
InFlight == MaxSessions + 1
Sessions == 1..InFlight

IdleSession ==
  [pc |-> "idle", chatId |-> 0, message |-> <<>>, regeneratedMessageId |-> 0,
   files |-> FALSE, useMemory |-> FALSE, userId |-> 0, aiId |-> 0,
   aborted |-> FALSE, accumulatedText |-> <<>>, received |-> <<>>,
   lines |-> <<>>, ctxFetch |-> "none", conversation |-> <<>>, cause |-> "none",
   outcome |-> "none"]

\* no operation on the similarity index yet
IdleCall ==
  [op |-> "none", chatId |-> 0, vecA |-> <<>>, vecB |-> <<>>, limit |-> 0,
   topK |-> 0, rows |-> <<>>, similarity |-> Zero]

\* a chat that already holds one completed turn, selected and loaded
OneTurnTable ==
  << [chat_id |-> 1, role |-> "user", content |-> <<"q", " ">>,
      canceled |-> FALSE, errored |-> FALSE, regenerated |-> FALSE],
     [chat_id |-> 1, role |-> "assistant", content |-> <<"a">>,
      canceled |-> FALSE, errored |-> FALSE, regenerated |-> FALSE] >>

\* the application holds no chat yet, or one chat with one completed turn
\* that the user has selected; the session controller never reads the
\* similarity index, which stays as it is here
Init ==
  /\ \/ /\ dbChats = {}
        /\ dbMessages = <<>>
        /\ currentChatId = 0
        /\ messages = <<>>
     \/ /\ dbChats = {1}
        /\ dbMessages = OneTurnTable
        /\ currentChatId = 1
        /\ messages = [i \in 1..2 |-> [id |-> i] @@ OneTurnTable[i]]
  /\ isLoading = FALSE
  /\ abortController = 0
  /\ uploadedFiles = FALSE
  /\ use_memory \in BOOLEAN
  /\ sess = [s \in Sessions |-> IdleSession]
  /\ nSessions = 0
  /\ dbEmbeddings = <<>>
  /\ simCall = IdleCall
  /\ dbFiles = <<>>
  /\ embedTasks = {}
  /\ messageOffset = Len(messages)
  /\ hasMoreMessages = FALSE

\* ------------------------------------------------------------ the store
\* A table is a sequence indexed by the AUTOINCREMENT id, which is never
\* reused: a deleted row leaves its place to a row that references
\* nothing (chat_id = 0, message_id = 0).
NoMessage ==
  [chat_id |-> 0, role |-> "none", content |-> <<>>,
   canceled |-> FALSE, errored |-> FALSE, regenerated |-> FALSE]
NoEmbedding == [message_id |-> 0, embedding |-> <<>>]
NoFile == [chat_id |-> 0]

\* SELECT * FROM messages WHERE id = ? finds a row
Stored(tbl, id) == id \in DOMAIN tbl /\ tbl[id] # NoMessage

\* DatabaseService.addMessage: INSERT, then the row read back
addMessage(tbl, chatId, role, content) ==
  Append(tbl, [chat_id |-> chatId, role |-> role, content |-> content,
               canceled |-> FALSE, errored |-> FALSE, regenerated |-> FALSE])

\* DatabaseService.updateMessage: UPDATE ... SET content, canceled, errored, regenerated
updateMessage(tbl, id, content, canceled, errored, regenerated) ==
  IF Stored(tbl, id)
  THEN [tbl EXCEPT ![id].content = content, ![id].canceled = canceled,
                   ![id].errored = errored, ![id].regenerated = regenerated]
  ELSE tbl

\* cancelMessage marking the message as regenerated as well
cancelMessage_MarksRegenerated(tbl, id) ==
  IF Stored(tbl, id) THEN [tbl EXCEPT ![id].canceled = TRUE, ![id].regenerated = TRUE]
  ELSE tbl

\* DatabaseService.cancelMessage: UPDATE ... SET canceled = 1
cancelMessage(tbl, id) ==
  IF Stored(tbl, id) THEN [tbl EXCEPT ![id].canceled = TRUE] ELSE tbl

\* errorMessage written with the column of cancelMessage
errorMessage_SetsCanceled(tbl, id) ==
  IF Stored(tbl, id) THEN [tbl EXCEPT ![id].canceled = TRUE] ELSE tbl

\* errorMessage keeping the two flags exclusive
errorMessage_ClearsCanceled(tbl, id) ==
  IF Stored(tbl, id) THEN [tbl EXCEPT ![id].errored = TRUE, ![id].canceled = FALSE]
  ELSE tbl

\* DatabaseService.errorMessage: UPDATE ... SET errored = 1
errorMessage(tbl, id) ==
  IF Stored(tbl, id) THEN [tbl EXCEPT ![id].errored = TRUE] ELSE tbl

\* DatabaseService.deleteMessage; ON DELETE CASCADE removes the embeddings
\* of the message
deleteMessage(db, id) ==
  [db EXCEPT
     !.messages = [i \in DOMAIN db.messages |->
                     IF i = id THEN NoMessage ELSE db.messages[i]],
     !.embeddings = [j \in DOMAIN db.embeddings |->
                       IF db.embeddings[j].message_id = id
                       THEN NoEmbedding ELSE db.embeddings[j]]]

\* deleteChat on a connection without PRAGMA foreign_keys = ON
deleteChat_NoCascade(db, id) == [db EXCEPT !.chats = db.chats \ {id}]

\* DatabaseService.deleteChat: DELETE FROM chats WHERE id = ?; with
\* foreign_keys = ON the delete cascades to the messages and file uploads of
\* the chat, and from the messages to their embeddings
deleteChat(db, id) ==
  [chats |-> db.chats \ {id},
   messages |-> [i \in DOMAIN db.messages |->
                   IF db.messages[i].chat_id = id THEN NoMessage ELSE db.messages[i]],
   embeddings |-> [j \in DOMAIN db.embeddings |->
                     IF /\ db.embeddings[j] # NoEmbedding
                        /\ db.messages[db.embeddings[j].message_id].chat_id = id
                     THEN NoEmbedding ELSE db.embeddings[j]],
   files |-> [k \in DOMAIN db.files |->
                IF db.files[k].chat_id = id THEN NoFile ELSE db.files[k]]]

\* DatabaseService.addFileUpload: INSERT INTO file_uploads
addFileUpload(tbl, chatId) == Append(tbl, [chat_id |-> chatId])

\* the PUT handler passing a constant for `regenerated`
PutMessage_MarksRegenerated(tbl, id, content, canceled, errored, regenerated) ==
  updateMessage(tbl, id, Trim(content), canceled, errored, TRUE)

\* PUT /api/messages/:id: the content is trimmed before it is stored
PutMessage(tbl, id, content, canceled, errored, regenerated) ==
  updateMessage(tbl, id, Trim(content), canceled, errored, regenerated)

\* the Message object the client receives for row id
MessageOf(tbl, id) ==
  [id |-> id, chat_id |-> tbl[id].chat_id, role |-> tbl[id].role,
   content |-> tbl[id].content, canceled |-> tbl[id].canceled,
   errored |-> tbl[id].errored, regenerated |-> tbl[id].regenerated]

\* setMessages(prev => prev.map(msg => msg.id === id ? {...msg, f: v} : msg))
MapContent(list, id, v) ==
  [i \in DOMAIN list |-> IF list[i].id = id THEN [list[i] EXCEPT !.content = v] ELSE list[i]]
MapCanceled(list, id) ==
  [i \in DOMAIN list |-> IF list[i].id = id THEN [list[i] EXCEPT !.canceled = TRUE] ELSE list[i]]
MapErrored(list, id) ==
  [i \in DOMAIN list |-> IF list[i].id = id THEN [list[i] EXCEPT !.errored = TRUE] ELSE list[i]]

\* ------------------------------------------------- the similarity index
\* the loop of cosineSimilarity: sums of products of small integers are exact
RECURSIVE DotProduct(_, _, _)
DotProduct(a, b, i) ==
  IF i > Len(a) THEN 0 ELSE a[i] * b[i] + DotProduct(a, b, i + 1)

\* the cosine without its zero-norm guard
cosine_NoZeroGuard(vecA, vecB) ==
  Over(DotProduct(vecA, vecB, 1),
       Times(Sqrt(DotProduct(vecA, vecA, 1)), Sqrt(DotProduct(vecB, vecB, 1))))

\* DatabaseService.cosineSimilarity
cosineSimilarity(vecA, vecB) ==
  LET dotProduct == DotProduct(vecA, vecB, 1)
      normA == Sqrt(DotProduct(vecA, vecA, 1))
      normB == Sqrt(DotProduct(vecB, vecB, 1))
  IN  IF normA = Zero \/ normB = Zero THEN Zero
      ELSE Over(dotProduct, Times(normA, normB))

\* DatabaseService.saveEmbedding: message_embeddings has no unique key on
\* message_id, so INSERT OR REPLACE always inserts
saveEmbedding(tbl, messageId, embedding) ==
  Append(tbl, [message_id |-> messageId, embedding |-> embedding])

\* the joined rows of message id, in the order of the embeddings table
RECURSIVE EmbeddingRows(_, _, _, _)
EmbeddingRows(msgs, embs, id, j) ==
  IF j > Len(embs) THEN <<>>
  ELSE (IF embs[j].message_id = id
        THEN <<[id |-> id, role |-> msgs[id].role, content |-> msgs[id].content,
                embedding |-> embs[j].embedding]>>
        ELSE <<>>)
       \o EmbeddingRows(msgs, embs, id, j + 1)

\* messages m JOIN message_embeddings me ON m.id = me.message_id
\* WHERE m.chat_id = ? ORDER BY m.created_at DESC (created_at grows with id)
RECURSIVE JoinRows(_, _, _, _)
JoinRows(msgs, embs, chatId, id) ==
  IF id = 0 THEN <<>>
  ELSE (IF msgs[id].chat_id = chatId THEN EmbeddingRows(msgs, embs, id, 1) ELSE <<>>)
       \o JoinRows(msgs, embs, chatId, id - 1)

\* LIMIT n, and Array.prototype.slice(0, n), for n >= 0
FirstN(seq, n) == IF Len(seq) <= n THEN seq ELSE SubSeq(seq, 1, n)

\* DatabaseService.getMessagesWithEmbeddings(chatId, limit)
getMessagesWithEmbeddings(msgs, embs, chatId, limit) ==
  FirstN(JoinRows(msgs, embs, chatId, Len(msgs)), limit)

\* messagesWithEmbeddings.map(msg => ({id, role, content, similarity}))
RECURSIVE Similarities(_, _)
Similarities(pool, queryEmbedding) ==
  IF pool = <<>> THEN <<>>
  ELSE <<[id |-> Head(pool).id, role |-> Head(pool).role,
          content |-> Head(pool).content,
          similarity |-> cosineSimilarity(queryEmbedding, Head(pool).embedding)]>>
       \o Similarities(Tail(pool), queryEmbedding)

\* the place of x in a list sorted by (a, b) => b.similarity - a.similarity;
\* Array.prototype.sort is stable
RECURSIVE InsertSorted(_, _)
InsertSorted(sorted, x) ==
  IF sorted = <<>> THEN <<x>>
  ELSE IF Less(Head(sorted).similarity, x.similarity) THEN <<x>> \o sorted
  ELSE <<Head(sorted)>> \o InsertSorted(Tail(sorted), x)

RECURSIVE SortBySimilarity(_, _)
SortBySimilarity(list, sorted) ==
  IF list = <<>> THEN sorted
  ELSE SortBySimilarity(Tail(list), InsertSorted(sorted, Head(list)))

\* getSimilarMessages without its .slice(0, topK)
getSimilar_NoSlice(msgs, embs, chatId, queryEmbedding, limit, topK) ==
  SortBySimilarity(
    Similarities(getMessagesWithEmbeddings(msgs, embs, chatId, limit), queryEmbedding),
    <<>>)

\* DatabaseService.getSimilarMessages(chatId, queryEmbedding, limit, topK)
getSimilarMessages(msgs, embs, chatId, queryEmbedding, limit, topK) ==
  FirstN(SortBySimilarity(
           Similarities(getMessagesWithEmbeddings(msgs, embs, chatId, limit),
                        queryEmbedding),
           <<>>),
         topK)

\* ------------------------------------------------- the context assembler
\* DatabaseService.getChatContext(chatId, limit, 0, "ASC"): the most recent
\* `limit` turns of the chat, oldest first
RECURSIVE ChatRows(_, _, _)
ChatRows(tbl, chatId, i) ==
  IF i > Len(tbl) THEN <<>>
  ELSE IF tbl[i].chat_id = chatId
       THEN <<i>> \o ChatRows(tbl, chatId, i + 1)
       ELSE ChatRows(tbl, chatId, i + 1)

LastN(seq, n) ==
  IF Len(seq) <= n THEN seq ELSE SubSeq(seq, Len(seq) - n + 1, Len(seq))

getChatContext(tbl, chatId, limit) ==
  LET ids == LastN(ChatRows(tbl, chatId, 1), limit)
  IN  [k \in DOMAIN ids |-> MessageOf(tbl, ids[k])]

\* GET /api/chats/:id/context; apiService.getConversationWithContext sends
\* only ?limit=, so `regenerate` is always the default "false"
GetContextEndpoint(tbl, chatId, limit, regenerate) ==
  LET rows == getChatContext(tbl, chatId, limit)
      kept == IF regenerate /\ Len(rows) > 0
              THEN SubSeq(rows, 1, Len(rows) - 1) ELSE rows
  IN  [k \in DOMAIN kept |-> [role |-> kept[k].role, content |-> kept[k].content]]

UserTurn(text) == [role |-> "user", content |-> text]

\* the assembler without the use_memory early return
prepare_IgnoresSetting(useMemory, tbl, fetchOk, chatId, currentMessage, isRegenerated) ==
  IF ~fetchOk THEN <<UserTurn(currentMessage)>>
  ELSE LET contextMessages == GetContextEndpoint(tbl, chatId, ContextLimit, FALSE)
       IN  IF Len(contextMessages) = 0 THEN <<UserTurn(currentMessage)>>
           ELSE <<[role |-> "system", content |-> SystemInstruction]>>
                \o contextMessages
                \o (IF isRegenerated THEN <<>> ELSE <<UserTurn(currentMessage)>>)

\* the assembler without the empty-history early return
prepare_NoEmptyCheck(useMemory, tbl, fetchOk, chatId, currentMessage, isRegenerated) ==
  IF ~useMemory THEN <<UserTurn(currentMessage)>>
  ELSE IF ~fetchOk THEN <<UserTurn(currentMessage)>>
  ELSE LET contextMessages == GetContextEndpoint(tbl, chatId, ContextLimit, FALSE)
       IN  <<[role |-> "system", content |-> SystemInstruction]>>
           \o contextMessages
           \o (IF isRegenerated THEN <<>> ELSE <<UserTurn(currentMessage)>>)

\* the assembler appending the current message also on regeneration
prepare_AppendsOnRegeneration(useMemory, tbl, fetchOk, chatId, currentMessage, isRegenerated) ==
  IF ~useMemory THEN <<UserTurn(currentMessage)>>
  ELSE IF ~fetchOk THEN <<UserTurn(currentMessage)>>
  ELSE LET contextMessages == GetContextEndpoint(tbl, chatId, ContextLimit, FALSE)
       IN  IF Len(contextMessages) = 0 THEN <<UserTurn(currentMessage)>>
           ELSE <<[role |-> "system", content |-> SystemInstruction]>>
                \o contextMessages
                \o <<UserTurn(currentMessage)>>

\* the assembler pushing the current message before the history
prepare_CurrentBeforeHistory(useMemory, tbl, fetchOk, chatId, currentMessage, isRegenerated) ==
  IF ~useMemory THEN <<UserTurn(currentMessage)>>
  ELSE IF ~fetchOk THEN <<UserTurn(currentMessage)>>
  ELSE LET contextMessages == GetContextEndpoint(tbl, chatId, ContextLimit, FALSE)
       IN  IF Len(contextMessages) = 0 THEN <<UserTurn(currentMessage)>>
           ELSE <<[role |-> "system", content |-> SystemInstruction]>>
                \o (IF isRegenerated THEN <<>> ELSE <<UserTurn(currentMessage)>>)
                \o contextMessages

\* prepareConversationWithContext; fetchOk = FALSE is a rejected
\* apiService.getConversationWithContext
prepareConversationWithContext(useMemory, tbl, fetchOk, chatId, currentMessage, isRegenerated) ==
  IF ~useMemory THEN <<UserTurn(currentMessage)>>
  ELSE IF ~fetchOk THEN <<UserTurn(currentMessage)>>
  ELSE LET contextMessages == GetContextEndpoint(tbl, chatId, ContextLimit, FALSE)
       IN  IF Len(contextMessages) = 0 THEN <<UserTurn(currentMessage)>>
           ELSE <<[role |-> "system", content |-> SystemInstruction]>>
                \o contextMessages
                \o (IF isRegenerated THEN <<>> ELSE <<UserTurn(currentMessage)>>)

\* fullMessageWithFileContent || message
ModelFacingText(message, files) ==
  IF files THEN message \o FileContent ELSE message

\* ------------------------------------------------------- message pages
\* the ids of the chat's rows WHERE content != '' ORDER BY created_at ASC
\* (created_at grows with id)
RECURSIVE ListableRows(_, _, _)
ListableRows(tbl, chatId, i) ==
  IF i > Len(tbl) THEN <<>>
  ELSE IF tbl[i].chat_id = chatId /\ tbl[i].content # <<>>
       THEN <<i>> \o ListableRows(tbl, chatId, i + 1)
       ELSE ListableRows(tbl, chatId, i + 1)

\* OFFSET n
Drop(seq, n) == IF n >= Len(seq) THEN <<>> ELSE SubSeq(seq, n + 1, Len(seq))

\* DatabaseService.getChatMessages(chatId, limit, offset)
getChatMessages(tbl, chatId, limit, offset) ==
  LET ids == FirstN(Drop(ListableRows(tbl, chatId, 1), offset), limit)
  IN  [k \in DOMAIN ids |-> MessageOf(tbl, ids[k])]

\* DatabaseService.getChatMessageCount(chatId): SELECT COUNT(*) WHERE chat_id = ?
getChatMessageCount(tbl, chatId) == Len(ChatRows(tbl, chatId, 1))

\* GET /api/chats/:id/messages?pageSize=&page=
GetMessagesEndpoint(tbl, chatId, pageSize, page) ==
  LET limit    == IF pageSize = 0 THEN DefaultLimit ELSE pageSize
      offset   == page
      msgs     == getChatMessages(tbl, chatId, limit, offset)
      total    == getChatMessageCount(tbl, chatId)
  IN  [messages |-> msgs, total |-> total, hasMore |-> offset + Len(msgs) < total]

\* loadChatMessages(chatId, page, reset); a failed request is only logged
LoadChatMessages(chatId, page, reset) ==
  \E ok \in BOOLEAN :
    IF ok
    THEN LET response == GetMessagesEndpoint(dbMessages, chatId, PageSize, page) IN
           /\ messages' = IF reset THEN response.messages
                          ELSE response.messages \o messages
           /\ messageOffset' = IF reset THEN Len(response.messages)
                               ELSE messageOffset + Len(response.messages)
           /\ hasMoreMessages' = response.hasMore
    ELSE UNCHANGED <<messages, messageOffset, hasMoreMessages>>

\* ---------------------------------------------------------- UI handlers
\* the finally block of startConversationSession followed by the finally
\* block of its caller
\* the function's locals go out of scope; what stays is which message
\* the session targeted and how it ended
Finish(s, outcome, cause) ==
  /\ sess' = [sess EXCEPT ![s] =
                [IdleSession EXCEPT
                   !.pc = "done", !.outcome = outcome,
                   !.cause = IF cause = "" THEN sess[s].cause ELSE cause,
                   !.chatId = sess[s].chatId, !.aiId = sess[s].aiId,
                   !.userId = sess[s].userId,
                   !.regeneratedMessageId = sess[s].regeneratedMessageId]]
  /\ abortController' = 0
  /\ uploadedFiles' = FALSE
  /\ isLoading' = FALSE

\* handleSendMessage up to its first await
HandleSendMessage(text) ==
  /\ ~isLoading
  /\ nSessions < MaxSessions
  /\ LET s == nSessions + 1 IN
       sess' = [sess EXCEPT ![s] =
                 [IdleSession EXCEPT
                    !.pc = IF currentChatId = 0 THEN "createChat" ELSE "addUser",
                    !.chatId = currentChatId, !.message = text,
                    !.files = uploadedFiles, !.useMemory = use_memory]]
  /\ nSessions' = nSessions + 1
  /\ isLoading' = TRUE
  /\ UNCHANGED <<dbChats, dbMessages, currentChatId, messages,
                 abortController, uploadedFiles, use_memory>>
  /\ UNCHANGED <<dbEmbeddings, simCall, dbFiles, embedTasks, messageOffset, hasMoreMessages>>

\* generateChatTitle + createChat, then startConversationSession's guard
\* and setCurrentChatId
CreateChat(s) ==
  /\ sess[s].pc = "createChat"
  /\ \E ok \in BOOLEAN :
       IF ok
       THEN LET id == Cardinality(dbChats) + 1 IN
            /\ dbChats' = dbChats \cup {id}
            /\ currentChatId' = id
            /\ sess' = [sess EXCEPT ![s].pc = "addUser", ![s].chatId = id]
            /\ LoadChatMessages(id, 0, TRUE)   \* the effect on currentChatId
            /\ UNCHANGED <<isLoading>>
       ELSE /\ sess' = [sess EXCEPT ![s] = [IdleSession EXCEPT !.pc = "done",
                                     !.outcome = "failed", !.cause = "persist"]]
            /\ isLoading' = FALSE
            /\ UNCHANGED <<dbChats, currentChatId, messages, messageOffset,
                           hasMoreMessages>>
  /\ UNCHANGED <<dbMessages, abortController, uploadedFiles, use_memory, nSessions>>
  /\ UNCHANGED <<dbEmbeddings, simCall, dbFiles, embedTasks>>

\* handleRegenerateResponse up to its first await
HandleRegenerateResponse(i) ==
  /\ currentChatId # 0
  /\ ~isLoading
  /\ nSessions < MaxSessions
  /\ i \in DOMAIN messages
  /\ messages[i].role = "assistant"
  /\ messages[i].content # <<>>      \* the action buttons render only for msg.content
  /\ LET s == nSessions + 1 IN
       sess' = [sess EXCEPT ![s] =
                 [IdleSession EXCEPT
                    !.pc = "getAi", !.chatId = currentChatId,
                    !.message = messages[i].content,
                    !.regeneratedMessageId = messages[i].id,
                    !.files = uploadedFiles, !.useMemory = use_memory]]
  /\ nSessions' = nSessions + 1
  /\ isLoading' = TRUE
  /\ UNCHANGED <<dbChats, dbMessages, currentChatId, messages,
                 abortController, uploadedFiles, use_memory>>
  /\ UNCHANGED <<dbEmbeddings, simCall, dbFiles, embedTasks, messageOffset, hasMoreMessages>>

\* handleCancelGeneration with a controller present
HandleCancelGeneration ==
  /\ isLoading
  /\ abortController # 0
  /\ sess' = [sess EXCEPT ![abortController].aborted = TRUE]
  /\ abortController' = 0
  /\ isLoading' = FALSE
  /\ UNCHANGED <<dbChats, dbMessages, currentChatId, messages,
                 uploadedFiles, use_memory, nSessions>>
  /\ UNCHANGED <<dbEmbeddings, simCall, dbFiles, embedTasks, messageOffset, hasMoreMessages>>

\* AppFileUpload stages a file (disabled while loading)
StageFile ==
  /\ ~isLoading
  /\ ~uploadedFiles
  /\ uploadedFiles' = TRUE
  /\ UNCHANGED <<dbChats, dbMessages, currentChatId, messages, isLoading,
                 abortController, use_memory, sess, nSessions>>
  /\ UNCHANGED <<dbEmbeddings, simCall, dbFiles, embedTasks, messageOffset, hasMoreMessages>>

\* ------------------------------------------- startConversationSession
\* the entry of startConversationSession: the chat-id guard, which returns
\* before the try block is entered, then setCurrentChatId
StartConversationSession(s) ==
  /\ sess[s].pc = "entry"
  /\ IF sess[s].chatId = 0
     THEN /\ sess' = [sess EXCEPT ![s] = [IdleSession EXCEPT !.pc = "done",
                                          !.outcome = "rejected"]]
          /\ isLoading' = FALSE
          /\ UNCHANGED currentChatId
     ELSE /\ sess' = [sess EXCEPT ![s].pc =
                        IF sess[s].regeneratedMessageId = 0 THEN "addUser" ELSE "getAi"]
          /\ currentChatId' = sess[s].chatId
          /\ UNCHANGED isLoading
  /\ UNCHANGED <<dbChats, dbMessages, messages, abortController, uploadedFiles,
                 use_memory, nSessions>>
  /\ UNCHANGED <<dbEmbeddings, simCall, dbFiles, embedTasks, messageOffset, hasMoreMessages>>

\* await apiService.addMessage(chatId, "user", message, false)
AddUserMessage(s) ==
  /\ sess[s].pc = "addUser"
  /\ \E ok \in BOOLEAN :
       IF ok /\ sess[s].chatId \in dbChats
       THEN LET tbl == addMessage(dbMessages, sess[s].chatId, "user", sess[s].message)
                id  == Len(tbl)
            IN  /\ dbMessages' = tbl
                /\ messages' = Append(messages, MessageOf(tbl, id))
                /\ sess' = [sess EXCEPT ![s].pc = "getAi", ![s].userId = id]
                /\ UNCHANGED <<abortController, uploadedFiles, isLoading>>
       ELSE /\ Finish(s, "failed", "persist")
            /\ UNCHANGED <<dbMessages, messages>>
  /\ UNCHANGED <<dbChats, currentChatId, use_memory, nSessions>>
  /\ UNCHANGED <<dbEmbeddings, simCall, dbFiles, embedTasks, messageOffset, hasMoreMessages>>

\* the table after getNewOrExistingAssitantMessage with a placeholder
\* added whatever existingMessageId is
getNewOrExisting_AlwaysAdds(tbl, chatId, existingMessageId) ==
  addMessage(tbl, chatId, "assistant", <<>>)

\* the table after getNewOrExistingAssitantMessage(chatId, existingMessageId):
\* an existing message is only read, a new placeholder is inserted
getNewOrExistingAssitantMessage(tbl, chatId, existingMessageId) ==
  IF existingMessageId # 0 THEN tbl
  ELSE addMessage(tbl, chatId, "assistant", <<>>)

\* await getNewOrExistingAssitantMessage(chatId, regeneratedMessageId), then
\* the new AbortController
GetAssistantMessage(s) ==
  /\ sess[s].pc = "getAi"
  /\ \E ok \in BOOLEAN :
       IF sess[s].regeneratedMessageId # 0
       THEN IF ok /\ Stored(dbMessages, sess[s].regeneratedMessageId)
            THEN /\ dbMessages' = getNewOrExistingAssitantMessage(
                                     dbMessages, sess[s].chatId,
                                     sess[s].regeneratedMessageId)
                 /\ sess' = [sess EXCEPT ![s].pc = "context",
                                         ![s].aiId = sess[s].regeneratedMessageId]
                 /\ abortController' = s
                 /\ UNCHANGED <<messages, uploadedFiles, isLoading>>
            ELSE /\ Finish(s, "failed", "persist")
                 /\ UNCHANGED <<dbMessages, messages>>
       ELSE IF ok /\ sess[s].chatId \in dbChats
            THEN LET tbl == getNewOrExistingAssitantMessage(
                              dbMessages, sess[s].chatId, sess[s].regeneratedMessageId)
                     id  == Len(tbl)
                 IN  /\ dbMessages' = tbl
                     /\ messages' = Append(messages, MessageOf(tbl, id))
                     /\ sess' = [sess EXCEPT ![s].pc = "context", ![s].aiId = id]
                     /\ abortController' = s
                     /\ UNCHANGED <<uploadedFiles, isLoading>>
            ELSE /\ Finish(s, "failed", "persist")
                 /\ UNCHANGED <<dbMessages, messages>>
  /\ UNCHANGED <<dbChats, currentChatId, use_memory, nSessions>>
  /\ UNCHANGED <<dbEmbeddings, simCall, dbFiles, embedTasks, messageOffset, hasMoreMessages>>

\* await prepareConversationWithContext(chatId, fullMessageWithFileContent || message, isRegen)
PrepareContext(s) ==
  /\ sess[s].pc = "context"
  /\ \E fetchOk \in (IF sess[s].useMemory THEN BOOLEAN ELSE {TRUE}) :
       sess' = [sess EXCEPT
                  ![s].pc = "fetch",
                  ![s].ctxFetch = IF ~sess[s].useMemory THEN "none"
                                  ELSE IF fetchOk THEN "ok" ELSE "failed",
                  ![s].conversation =
                     prepareConversationWithContext(
                       sess[s].useMemory, dbMessages, fetchOk, sess[s].chatId,
                       ModelFacingText(sess[s].message, sess[s].files),
                       sess[s].regeneratedMessageId # 0)]
  /\ UNCHANGED <<dbChats, dbMessages, currentChatId, messages, isLoading,
                 abortController, uploadedFiles, use_memory, nSessions>>
  /\ UNCHANGED <<dbEmbeddings, simCall, dbFiles, embedTasks, messageOffset, hasMoreMessages>>

\* once the request has been issued the session reads neither the
\* conversation nor the arguments it was built from again
Sent(r) ==
  [r EXCEPT !.conversation = <<>>, !.ctxFetch = "none", !.message = <<>>,
            !.files = FALSE, !.useMemory = FALSE]

\* catch (ollamaError) with an AbortError: the in-memory flag, then the
\* await of cancelMessageGeneration
CatchAbort(s) ==
  /\ messages' = MapCanceled(messages, sess[s].aiId)
  /\ sess' = [sess EXCEPT ![s] = Sent([sess[s] EXCEPT !.pc = "cancel", !.cause = "abort",
                                                      !.received = <<>>])]

\* catch (ollamaError) with any other error: the await of setMessageAsError
CatchError(s, cause) ==
  /\ sess' = [sess EXCEPT ![s] = Sent([sess[s] EXCEPT !.pc = "error", !.cause = cause,
                                                      !.received = <<>>])]
  /\ UNCHANGED messages

\* await sendChatMessage(conversation, controller.signal), response.ok and
\* response.body checks
SendChatMessage(s) ==
  /\ sess[s].pc = "fetch"
  /\ IF sess[s].aborted
     THEN CatchAbort(s)
     ELSE \E r \in {"ok", "http", "network"} :
            IF r = "ok"
            THEN /\ sess' = [sess EXCEPT ![s] = Sent([sess[s] EXCEPT !.pc = "read",
                                                                 !.accumulatedText = <<>>])]
                 /\ UNCHANGED messages
            ELSE CatchError(s, r)
  /\ UNCHANGED <<dbChats, dbMessages, currentChatId, isLoading,
                 abortController, uploadedFiles, use_memory, nSessions>>
  /\ UNCHANGED <<dbEmbeddings, simCall, dbFiles, embedTasks, messageOffset, hasMoreMessages>>

\* the accumulator overwritten by each delta
Accumulate_Resets(accumulatedText, content) == content

\* accumulatedText += data.message.content
Accumulate(accumulatedText, content) == accumulatedText \o content

\* the concatenation of a sequence of texts
RECURSIVE Concat(_)
Concat(ss) == IF ss = <<>> THEN <<>> ELSE Head(ss) \o Concat(Tail(ss))

\* one await reader.read() and the handling of what it carries.  `received`
\* records the message.content values the stream has carried so far.
StreamRead(s) ==
  /\ sess[s].pc = "read"
  /\ IF sess[s].aborted
     THEN CatchAbort(s)
     ELSE \/ \E d \in Deltas :
               /\ Len(Concat(sess[s].received)) + Len(d) <= MaxAcc
               /\ \/ \* the line arrives whole in one chunk
                     LET acc == Accumulate(sess[s].accumulatedText, d) IN
                       /\ sess' = [sess EXCEPT ![s].accumulatedText = acc,
                                               ![s].received = Append(sess[s].received, d)]
                       /\ messages' = MapContent(messages, sess[s].aiId, acc)
                  \/ \* the line's bytes arrive in two chunks: chunk.split("\n")
                     \* yields two fragments and JSON.parse rejects both
                     /\ sess' = [sess EXCEPT ![s].received = Append(sess[s].received, d)]
                     /\ UNCHANGED messages
          \/ UNCHANGED <<sess, messages>>     \* a line JSON.parse rejects, or one without content
          \/ /\ sess' = [sess EXCEPT ![s].pc = "update"]
             /\ UNCHANGED messages
          \/ CatchError(s, "stream")
  /\ UNCHANGED <<dbChats, dbMessages, currentChatId, isLoading,
                 abortController, uploadedFiles, use_memory, nSessions>>
  /\ UNCHANGED <<dbEmbeddings, simCall, dbFiles, embedTasks, messageOffset, hasMoreMessages>>

\* await apiService.updateMessage(aiDbMessage.id, accumulatedText, false, false, isRegen);
\* a rejection is caught by catch (ollamaError)
UpdateMessage(s) ==
  /\ sess[s].pc = "update"
  /\ \E ok \in BOOLEAN :
       IF ok
       THEN /\ dbMessages' = PutMessage(dbMessages, sess[s].aiId,
                                        sess[s].accumulatedText, FALSE, FALSE,
                                        sess[s].regeneratedMessageId # 0)
            /\ Finish(s, "completed", "")
            /\ UNCHANGED messages
       ELSE /\ CatchError(s, "persist")
            /\ UNCHANGED <<dbMessages, abortController, uploadedFiles, isLoading>>
  /\ UNCHANGED <<dbChats, currentChatId, use_memory, nSessions>>
  /\ UNCHANGED <<dbEmbeddings, simCall, dbFiles, embedTasks, messageOffset, hasMoreMessages>>

\* await apiService.cancelMessageGeneration(aiDbMessage.id)
CancelMessageGeneration(s) ==
  /\ sess[s].pc = "cancel"
  /\ \E ok \in BOOLEAN :
       IF ok
       THEN /\ dbMessages' = cancelMessage(dbMessages, sess[s].aiId)
            /\ Finish(s, "canceled", "")
       ELSE /\ Finish(s, "failed", "")
            /\ UNCHANGED dbMessages
  /\ UNCHANGED <<dbChats, currentChatId, messages, use_memory, nSessions>>
  /\ UNCHANGED <<dbEmbeddings, simCall, dbFiles, embedTasks, messageOffset, hasMoreMessages>>

\* await apiService.setMessageAsError(aiDbMessage.id), then the in-memory flag
SetMessageAsError(s) ==
  /\ sess[s].pc = "error"
  /\ \E ok \in BOOLEAN :
       IF ok
       THEN /\ dbMessages' = errorMessage(dbMessages, sess[s].aiId)
            /\ messages' = MapErrored(messages, sess[s].aiId)
            /\ Finish(s, "errored", "")
       ELSE /\ Finish(s, "failed", "")
            /\ UNCHANGED <<dbMessages, messages>>
  /\ UNCHANGED <<dbChats, currentChatId, use_memory, nSessions>>
  /\ UNCHANGED <<dbEmbeddings, simCall, dbFiles, embedTasks, messageOffset, hasMoreMessages>>

Next ==
  \/ \E text \in UserTexts : HandleSendMessage(text)
  \/ \E i \in 1..Len(messages) : HandleRegenerateResponse(i)
  \/ HandleCancelGeneration
  \/ StageFile
  \/ \E s \in Sessions : CreateChat(s)
  \/ \E s \in Sessions : AddUserMessage(s)
  \/ \E s \in Sessions : GetAssistantMessage(s)
  \/ \E s \in Sessions : PrepareContext(s)
  \/ \E s \in Sessions : SendChatMessage(s)
  \/ \E s \in Sessions : StreamRead(s)
  \/ \E s \in Sessions : UpdateMessage(s)
  \/ \E s \in Sessions : CancelMessageGeneration(s)
  \/ \E s \in Sessions : SetMessageAsError(s)

Spec == Init /\ [][Next]_vars

\* --------------------------------- a turn started during another turn
\* chat 1 after the user message and the placeholder of a second turn
TwoTurnTable ==
  addMessage(addMessage(OneTurnTable, 1, "user", <<"q", " ">>), 1, "assistant", <<>>)

\* the application while a new turn of chat 1 is streaming: the user
\* message (id 3) and the placeholder (id 4) are stored and shown, the
\* request has been sent, no delta has arrived yet
InitRestart ==
  /\ dbChats = {1}
  /\ dbMessages = TwoTurnTable
  /\ currentChatId = 1
  /\ messages = [i \in 1..4 |-> MessageOf(TwoTurnTable, i)]
  /\ isLoading = TRUE
  /\ abortController = InFlight
  /\ uploadedFiles = FALSE
  /\ use_memory \in BOOLEAN
  /\ sess = [s \in Sessions |->
               IF s = InFlight
               THEN [IdleSession EXCEPT !.pc = "read", !.chatId = 1,
                                        !.userId = 3, !.aiId = 4]
               ELSE IdleSession]
  /\ nSessions = 0
  /\ dbEmbeddings = <<>>
  /\ simCall = IdleCall
  /\ dbFiles = <<>>
  /\ embedTasks = {}
  /\ messageOffset = Len(OneTurnTable)
  /\ hasMoreMessages = FALSE

\* a chat is selected, so no chat is created
NextRestart ==
  \/ \E text \in UserTexts : HandleSendMessage(text)
  \/ \E i \in 1..Len(messages) : HandleRegenerateResponse(i)
  \/ HandleCancelGeneration
  \/ StageFile
  \/ \E s \in Sessions : AddUserMessage(s)
  \/ \E s \in Sessions : GetAssistantMessage(s)
  \/ \E s \in Sessions : PrepareContext(s)
  \/ \E s \in Sessions : SendChatMessage(s)
  \/ \E s \in Sessions : StreamRead(s)
  \/ \E s \in Sessions : UpdateMessage(s)
  \/ \E s \in Sessions : CancelMessageGeneration(s)
  \/ \E s \in Sessions : SetMessageAsError(s)

SpecRestart == InitRestart /\ [][NextRestart]_vars

\* ------------------------------------------ the read loop, line by line
\* a line of the response body after chunk.split("\n").filter(...):
\* `valid` is whether JSON.parse accepts it, `content` is
\* data.message.content (empty when the object carries none)
StreamLines ==
  {[valid |-> TRUE, content |-> d] : d \in Deltas}
    \cup {[valid |-> TRUE, content |-> <<>>], [valid |-> FALSE, content |-> <<>>]}

\* the chunks one reader.read() may return
Chunks == UNION {[1..n -> StreamLines] : n \in 1..MaxChunk}

\* variant: a line JSON.parse rejects loses what was accumulated
HandleLine_ResetsOnBadLine(accumulatedText, line) ==
  IF line.valid
  THEN IF line.content # <<>> THEN Accumulate(accumulatedText, line.content)
       ELSE accumulatedText
  ELSE <<>>

\* the body of for (const line of lines): try { JSON.parse ... } catch
HandleLine(accumulatedText, line) ==
  IF line.valid /\ line.content # <<>>
  THEN Accumulate(accumulatedText, line.content)
  ELSE accumulatedText

\* for (const line of lines) over one chunk
RECURSIVE ReadLines(_, _)
ReadLines(accumulatedText, lines) ==
  IF lines = <<>> THEN accumulatedText
  ELSE ReadLines(HandleLine(accumulatedText, Head(lines)), Tail(lines))

\* whether some line of the chunk reaches setMessages
CarriesContent(lines) ==
  \E i \in 1..Len(lines) : lines[i].valid /\ lines[i].content # <<>>

\* one await reader.read() with the lines of its chunk recorded in `lines`
ReadChunk(s) ==
  /\ sess[s].pc = "read"
  /\ IF sess[s].aborted
     THEN CatchAbort(s)
     ELSE \/ \E chunk \in Chunks :
               /\ Len(sess[s].lines) + Len(chunk) <= MaxLines
               /\ LET acc == ReadLines(sess[s].accumulatedText, chunk) IN
                    /\ sess' = [sess EXCEPT ![s].accumulatedText = acc,
                                            ![s].lines = sess[s].lines \o chunk]
                    /\ messages' = IF CarriesContent(chunk)
                                   THEN MapContent(messages, sess[s].aiId, acc)
                                   ELSE messages
          \/ /\ sess' = [sess EXCEPT ![s].pc = "update"]
             /\ UNCHANGED messages
          \/ CatchError(s, "stream")
  /\ UNCHANGED <<dbChats, dbMessages, currentChatId, isLoading,
                 abortController, uploadedFiles, use_memory, nSessions>>
  /\ UNCHANGED <<dbEmbeddings, simCall, dbFiles, embedTasks, messageOffset, hasMoreMessages>>

\* the turn of InitRestart from its first read to its return
NextStream ==
  \/ HandleCancelGeneration
  \/ \E s \in Sessions : ReadChunk(s)
  \/ \E s \in Sessions : UpdateMessage(s)
  \/ \E s \in Sessions : CancelMessageGeneration(s)
  \/ \E s \in Sessions : SetMessageAsError(s)

SpecStream == InitRestart /\ [][NextStream]_vars

\* ------------------------------------------------ sessions under fairness
\* an await on a request to the local store resolves or rejects
StoreStep(s) ==
  \/ AddUserMessage(s)
  \/ GetAssistantMessage(s)
  \/ PrepareContext(s)
  \/ UpdateMessage(s)
  \/ CancelMessageGeneration(s)
  \/ SetMessageAsError(s)

\* controller.abort() rejects the pending fetch or reader.read() with an
\* AbortError
AbortStep(s) ==
  /\ sess[s].aborted
  /\ (SendChatMessage(s) \/ StreamRead(s))

\* the store answers, an aborted request rejects, and the user cancels
\* whenever handleCancelGeneration keeps finding a controller; the model
\* connection itself may hang for ever
FairRestart ==
  /\ WF_vars(HandleCancelGeneration)
  /\ \A s \in Sessions : WF_vars(StoreStep(s)) /\ WF_vars(AbortStep(s))

SpecLive == SpecRestart /\ FairRestart

\* ------------------------------------------- chat selection and scrolling
\* selectChat(chatId) and the effect on currentChatId that loads the chat
SelectChat(chatId) ==
  /\ chatId \in dbChats
  /\ chatId # currentChatId
  /\ currentChatId' = chatId
  /\ LoadChatMessages(chatId, 0, TRUE)
  /\ UNCHANGED <<dbChats, dbMessages, isLoading, abortController, uploadedFiles,
                 use_memory, sess, nSessions, dbEmbeddings, simCall, dbFiles,
                 embedTasks>>

\* createNewChat
CreateNewChat ==
  /\ currentChatId # 0
  /\ currentChatId' = 0
  /\ messages' = <<>>
  /\ messageOffset' = 0
  /\ hasMoreMessages' = FALSE
  /\ uploadedFiles' = FALSE
  /\ UNCHANGED <<dbChats, dbMessages, isLoading, abortController, use_memory,
                 sess, nSessions, dbEmbeddings, simCall, dbFiles, embedTasks>>

\* handleScroll at scrollTop 0
HandleScroll ==
  /\ hasMoreMessages
  /\ currentChatId # 0
  /\ LoadChatMessages(currentChatId, messageOffset, FALSE)
  /\ UNCHANGED <<dbChats, dbMessages, currentChatId, isLoading, abortController,
                 uploadedFiles, use_memory, sess, nSessions, dbEmbeddings,
                 simCall, dbFiles, embedTasks>>

\* chat 1 with one completed turn and chat 2 with one completed turn
TwoChatTable ==
  addMessage(addMessage(OneTurnTable, 2, "user", <<"q", " ">>), 2, "assistant", <<"a">>)

\* chat 1 with one completed turn and a turn canceled before its first delta
CanceledTurnTable == cancelMessage(TwoTurnTable, 4)

\* the application after start-up, no chat selected yet
InitPage ==
  /\ dbChats = {1, 2}
  /\ dbMessages \in {TwoChatTable, CanceledTurnTable}
  /\ currentChatId = 0
  /\ messages = <<>>
  /\ isLoading = FALSE
  /\ abortController = 0
  /\ uploadedFiles = FALSE
  /\ use_memory = FALSE
  /\ sess = [s \in Sessions |-> IdleSession]
  /\ nSessions = 0
  /\ dbEmbeddings = <<>>
  /\ simCall = IdleCall
  /\ dbFiles = <<>>
  /\ embedTasks = {}
  /\ messageOffset = 0
  /\ hasMoreMessages = FALSE

NextPage ==
  \/ Next
  \/ \E chatId \in dbChats : SelectChat(chatId)
  \/ CreateNewChat
  \/ HandleScroll

SpecPage == InitPage /\ [][NextPage]_vars

\* ------------------------------ startConversationSession on its own
\* one call of startConversationSession over the arguments its signature
\* admits: chatId a number or null (0), a new turn or a regeneration of
\* message 2, with or without a staged file
InitCall ==
  /\ dbChats = {1}
  /\ dbMessages = OneTurnTable
  /\ messages = [i \in 1..2 |-> [id |-> i] @@ OneTurnTable[i]]
  /\ currentChatId \in {0, 1}
  /\ isLoading = TRUE
  /\ abortController = 0
  /\ uploadedFiles \in BOOLEAN
  /\ use_memory \in BOOLEAN
  /\ nSessions = 1
  /\ \E text \in UserTexts, target \in {0, 2} :
       sess = [s \in Sessions |->
                 IF s = 1
                 THEN [IdleSession EXCEPT
                         !.pc = "entry", !.chatId = currentChatId,
                         !.message = IF target = 0 THEN text ELSE OneTurnTable[2].content,
                         !.regeneratedMessageId = target,
                         !.files = uploadedFiles, !.useMemory = use_memory]
                 ELSE IdleSession]
  /\ dbEmbeddings = <<>>
  /\ simCall = IdleCall
  /\ dbFiles = <<>>
  /\ embedTasks = {}
  /\ messageOffset = Len(messages)
  /\ hasMoreMessages = FALSE

NextCall ==
  \/ HandleCancelGeneration
  \/ \E s \in Sessions : StartConversationSession(s)
  \/ \E s \in Sessions : AddUserMessage(s)
  \/ \E s \in Sessions : GetAssistantMessage(s)
  \/ \E s \in Sessions : PrepareContext(s)
  \/ \E s \in Sessions : SendChatMessage(s)
  \/ \E s \in Sessions : StreamRead(s)
  \/ \E s \in Sessions : UpdateMessage(s)
  \/ \E s \in Sessions : CancelMessageGeneration(s)
  \/ \E s \in Sessions : SetMessageAsError(s)

SpecCall == InitCall /\ [][NextCall]_vars

\* ------------------------------------- the context assembler on its own
\* rows the assembler may find in the table
CtxRows ==
  [chat_id : {1, 2}, role : {"user", "assistant"}, content : {<<"a">>, <<>>},
   canceled : {FALSE}, errored : {FALSE}, regenerated : {FALSE}]

\* a chat-1 transcript of n alternating turns
LongTable(n) ==
  [i \in 1..n |->
     [chat_id |-> 1, role |-> IF i % 2 = 1 THEN "user" ELSE "assistant",
      content |-> <<"a">>, canceled |-> FALSE, errored |-> FALSE,
      regenerated |-> FALSE]]

CtxTables ==
  UNION {[1..n -> CtxRows] : n \in 0..MaxHistory}
    \cup {LongTable(n) : n \in (MaxHistory + 1)..(ContextLimit + 2)}

\* a session about to assemble its context, over every drawn table
InitCtx ==
  /\ dbChats = {1, 2}
  /\ dbMessages \in CtxTables
  /\ currentChatId = 1
  /\ messages = <<>>
  /\ isLoading = TRUE
  /\ abortController = 1
  /\ uploadedFiles \in BOOLEAN
  /\ use_memory \in BOOLEAN
  /\ nSessions = 1
  /\ \E text \in UserTexts \cup {<<"a">>},
        target \in {0} \cup {i \in DOMAIN dbMessages :
                                dbMessages[i].chat_id = 1 /\ dbMessages[i].role = "assistant"} :
       sess = [s \in Sessions |->
                 IF s = 1
                 THEN [IdleSession EXCEPT
                         !.pc = "context", !.chatId = 1, !.message = text,
                         !.regeneratedMessageId = target,
                         !.aiId = target, !.files = uploadedFiles,
                         !.useMemory = use_memory]
                 ELSE IdleSession]
  /\ dbEmbeddings = <<>>
  /\ simCall = IdleCall
  /\ dbFiles = <<>>
  /\ embedTasks = {}
  /\ messageOffset = Len(messages)
  /\ hasMoreMessages = FALSE

NextCtx == \E s \in Sessions : PrepareContext(s)

SpecCtx == InitCtx /\ [][NextCtx]_vars

\* ------------------------------------- the similarity index on its own
Components == (0 - MaxComp)..MaxComp
Vectors    == {<<x, y>> : x \in Components, y \in Components}
EmbVectors == {<<1, 0>>, <<1, 1>>}            \* vectors the embedding model returns
Queries    == {<<1, 1>>, <<1, 0>>, <<0, 0>>}  \* query vectors

\* two chats; chat 1 holds a user and an assistant message
SimTable ==
  << [chat_id |-> 1, role |-> "user", content |-> <<"q", " ">>,
      canceled |-> FALSE, errored |-> FALSE, regenerated |-> FALSE],
     [chat_id |-> 2, role |-> "user", content |-> <<"q", " ">>,
      canceled |-> FALSE, errored |-> FALSE, regenerated |-> FALSE],
     [chat_id |-> 1, role |-> "assistant", content |-> <<"a">>,
      canceled |-> FALSE, errored |-> FALSE, regenerated |-> FALSE] >>

\* the UI at rest
AtRest ==
  /\ currentChatId = 0
  /\ messages = <<>>
  /\ isLoading = FALSE
  /\ abortController = 0
  /\ uploadedFiles = FALSE
  /\ use_memory = FALSE
  /\ sess = [s \in Sessions |-> IdleSession]
  /\ nSessions = 0
  /\ dbFiles = <<>>
  /\ embedTasks = {}
  /\ messageOffset = Len(messages)
  /\ hasMoreMessages = FALSE

InitSim ==
  /\ dbChats = {1, 2}
  /\ dbMessages = SimTable
  /\ dbEmbeddings = <<>>
  /\ simCall = IdleCall
  /\ AtRest

\* the detached embedding task of the POST and PUT handlers stores a vector
\* for an existing message (the foreign key rejects any other id)
SaveEmbedding(messageId, embedding) ==
  /\ Len(dbEmbeddings) < MaxEmb
  /\ Stored(dbMessages, messageId)
  /\ dbEmbeddings' = saveEmbedding(dbEmbeddings, messageId, embedding)
  /\ simCall' = [IdleCall EXCEPT !.op = "save"]
  /\ UNCHANGED <<dbChats, dbMessages, currentChatId, messages, isLoading,
                 abortController, uploadedFiles, use_memory, sess, nSessions,
                 dbFiles, embedTasks, messageOffset, hasMoreMessages>>

\* one call of getSimilarMessages; a read changes no table, so a read that
\* follows a read reaches nothing a single read does not
GetSimilarMessages(chatId, queryEmbedding, limit, topK) ==
  /\ simCall.op # "similar"
  /\ simCall' = [IdleCall EXCEPT
                   !.op = "similar", !.chatId = chatId, !.vecA = queryEmbedding,
                   !.limit = limit, !.topK = topK,
                   !.rows = getSimilarMessages(dbMessages, dbEmbeddings, chatId,
                                               queryEmbedding, limit, topK)]
  /\ UNCHANGED <<dbChats, dbMessages, currentChatId, messages, isLoading,
                 abortController, uploadedFiles, use_memory, sess, nSessions,
                 dbEmbeddings, dbFiles, embedTasks, messageOffset, hasMoreMessages>>

NextSim ==
  \/ \E id \in 1..Len(dbMessages), v \in EmbVectors : SaveEmbedding(id, v)
  \/ \E c \in dbChats, q \in Queries, limit \in 0..MaxPool, topK \in 0..MaxTopK :
       GetSimilarMessages(c, q, limit, topK)

SpecSim == InitSim /\ [][NextSim]_vars

\* ------------------------------------------- the store handlers on their own
\* The requests the server accepts, in any order: what a session, a detached
\* embedding request or the sidebar sends, whenever it sends it.
ChatIds == {1, 2}

\* the four tables as one database
Database ==
  [chats |-> dbChats, messages |-> dbMessages, embeddings |-> dbEmbeddings,
   files |-> dbFiles]

InitStore ==
  /\ dbChats = ChatIds
  /\ dbMessages = SubSeq(SimTable, 1, 2)
  /\ dbEmbeddings = <<>>
  /\ simCall = IdleCall
  /\ dbFiles = <<>>
  /\ embedTasks = {}
  /\ messageOffset = 0
  /\ hasMoreMessages = FALSE
  /\ currentChatId = 0
  /\ messages = <<>>
  /\ isLoading = FALSE
  /\ abortController = 0
  /\ uploadedFiles = FALSE
  /\ use_memory = FALSE
  /\ sess = [s \in Sessions |-> IdleSession]
  /\ nSessions = 0

\* the client state, which no handler touches
ClientUnchanged ==
  UNCHANGED <<currentChatId, messages, isLoading, abortController,
              uploadedFiles, use_memory, sess, nSessions,
              messageOffset, hasMoreMessages>>

\* DELETE /api/chats/:id: 404 for a chat that is not there
DeleteChat(chatId) ==
  /\ chatId \in dbChats
  /\ LET db == deleteChat(Database, chatId) IN
       /\ dbChats' = db.chats
       /\ dbMessages' = db.messages
       /\ dbEmbeddings' = db.embeddings
       /\ dbFiles' = db.files
  /\ UNCHANGED <<simCall, embedTasks>>
  /\ ClientUnchanged

\* DELETE /api/messages/:id
DeleteMessage(id) ==
  /\ Stored(dbMessages, id)
  /\ LET db == deleteMessage(Database, id) IN
       /\ dbMessages' = db.messages
       /\ dbEmbeddings' = db.embeddings
  /\ UNCHANGED <<dbChats, dbFiles, embedTasks, simCall>>
  /\ ClientUnchanged

\* the POST handler goes on to the embedding request unless
\* !message.content || message.content.trim() === ""
PostEmbeds(content) == Trim(content) # <<>>

\* variant: the PUT handler looks at the content only
PutEmbeds_IgnoresFlags(content, canceled, errored) == Trim(content) # <<>>

\* the PUT handler's if (data !== "" && !canceled && !errored)
PutEmbeds(content, canceled, errored) ==
  Trim(content) # <<>> /\ ~canceled /\ ~errored

\* POST /api/chats/:id/messages: the insert fails on the foreign key when the
\* chat is gone (status 500); a stored message with non-blank content starts
\* a detached embedding request
PostMessage(chatId, role, content) ==
  /\ Len(dbMessages) < MaxRows
  /\ IF chatId \in dbChats
     THEN LET tbl == addMessage(dbMessages, chatId, role, content) IN
            /\ dbMessages' = tbl
            /\ embedTasks' = IF PostEmbeds(content) THEN embedTasks \cup {Len(tbl)}
                             ELSE embedTasks
     ELSE UNCHANGED <<dbMessages, embedTasks>>
  /\ UNCHANGED <<dbChats, dbEmbeddings, dbFiles, simCall>>
  /\ ClientUnchanged

\* PUT /api/messages/:id: the update, then the detached embedding request
\* for the id of the request, whether or not a row was updated
PutMessageRequest(id, content, canceled, errored, regenerated) ==
  /\ dbMessages' = PutMessage(dbMessages, id, content, canceled, errored, regenerated)
  /\ embedTasks' = IF PutEmbeds(content, canceled, errored)
                   THEN embedTasks \cup {id} ELSE embedTasks
  /\ UNCHANGED <<dbChats, dbEmbeddings, dbFiles, simCall>>
  /\ ClientUnchanged

\* PATCH /api/messages/:id/cancel
PatchCancel(id) ==
  /\ dbMessages' = cancelMessage(dbMessages, id)
  /\ UNCHANGED <<dbChats, dbEmbeddings, dbFiles, embedTasks, simCall>>
  /\ ClientUnchanged

\* PATCH /api/messages/:id/error
PatchError(id) ==
  /\ dbMessages' = errorMessage(dbMessages, id)
  /\ UNCHANGED <<dbChats, dbEmbeddings, dbFiles, embedTasks, simCall>>
  /\ ClientUnchanged

\* the .then of a detached embedding request: saveEmbedding throws on the
\* foreign key when the message is gone, and the .catch logs it; a failed
\* request saves nothing
EmbeddingTask(id) ==
  /\ id \in embedTasks
  /\ Len(dbEmbeddings) < MaxEmb
  /\ embedTasks' = embedTasks \ {id}
  /\ \E ok \in BOOLEAN :
       IF ok /\ Stored(dbMessages, id)
       THEN /\ dbEmbeddings' = saveEmbedding(dbEmbeddings, id, <<1, 0>>)
            /\ simCall' = [IdleCall EXCEPT !.op = "save"]
       ELSE /\ simCall' = [IdleCall EXCEPT !.op = IF ok THEN "saveRejected" ELSE simCall.op]
            /\ UNCHANGED dbEmbeddings
  /\ UNCHANGED <<dbChats, dbMessages, dbFiles>>
  /\ ClientUnchanged

\* POST /api/files/upload: the insert fails on the foreign key when the chat
\* is gone
UploadFile(chatId) ==
  /\ Len(dbFiles) < MaxFiles
  /\ IF chatId \in dbChats
     THEN dbFiles' = addFileUpload(dbFiles, chatId)
     ELSE UNCHANGED dbFiles
  /\ UNCHANGED <<dbChats, dbMessages, dbEmbeddings, embedTasks, simCall>>
  /\ ClientUnchanged

\* the ids a session may hold as aiDbMessage.id: an assistant message, or
\* one that has been deleted since
TargetIds == {id \in 1..Len(dbMessages) : dbMessages[id].role # "user"}

\* the client posts a user message with text and an empty placeholder
NextStore ==
  \/ \E c \in ChatIds : DeleteChat(c)
  \/ \E id \in 1..Len(dbMessages) : DeleteMessage(id)
  \/ \E c \in ChatIds, m \in {<<"user", <<"a">>>>, <<"assistant", <<>>>>} :
       PostMessage(c, m[1], m[2])
  \/ \E id \in TargetIds : PutMessageRequest(id, <<"a">>, FALSE, FALSE, FALSE)
  \/ \E id \in TargetIds : PatchCancel(id)
  \/ \E id \in TargetIds : PatchError(id)
  \/ \E id \in embedTasks : EmbeddingTask(id)
  \/ \E c \in ChatIds : UploadFile(c)

SpecStore == InitStore /\ [][NextStore]_vars

\* ------------------------------------------- which requests embed
\* one chat, nothing stored yet
InitEmbed ==
  /\ dbChats = {1}
  /\ dbMessages = <<>>
  /\ dbEmbeddings = <<>>
  /\ simCall = IdleCall
  /\ dbFiles = <<>>
  /\ embedTasks = {}
  /\ AtRest

\* the bodies of the PUT requests: content, canceled, errored
PutDraws ==
  {<<(<<"a">>), FALSE, FALSE>>, <<(<<>>), FALSE, FALSE>>, <<(<<" ">>), FALSE, FALSE>>,
   <<(<<"a">>), TRUE, FALSE>>, <<(<<"a">>), FALSE, TRUE>>}

\* POST and PUT requests with text, blank or empty content and with or
\* without a flag, and the detached embedding requests they start
NextEmbed ==
  \/ \E c \in dbChats,
        m \in {<<"user", <<"a">>>>, <<"user", <<" ">>>>, <<"assistant", <<>>>>} :
       PostMessage(c, m[1], m[2])
  \/ \E id \in TargetIds, u \in PutDraws :
       PutMessageRequest(id, u[1], u[2], u[3], FALSE)
  \/ \E id \in embedTasks : EmbeddingTask(id)

SpecEmbed == InitEmbed /\ [][NextEmbed]_vars

\* ----------------------------------------------- the cosine on its own
InitCos ==
  /\ dbChats = {}
  /\ dbMessages = <<>>
  /\ dbEmbeddings = <<>>
  /\ \E a \in Vectors, b \in Vectors :
       simCall = [IdleCall EXCEPT !.op = "args", !.vecA = a, !.vecB = b]
  /\ AtRest

\* one call of cosineSimilarity
CosineSimilarity ==
  /\ simCall.op = "args"
  /\ simCall' = [simCall EXCEPT !.op = "cosine",
                                !.similarity = cosineSimilarity(simCall.vecA, simCall.vecB)]
  /\ UNCHANGED <<dbChats, dbMessages, currentChatId, messages, isLoading,
                 abortController, uploadedFiles, use_memory, sess, nSessions,
                 dbEmbeddings, dbFiles, embedTasks, messageOffset, hasMoreMessages>>

NextCos == CosineSimilarity

SpecCos == InitCos /\ [][NextCos]_vars

\* ================================================================ claims
\* session s returns in this step with the given outcome
Ends(s, o) ==
  /\ sess[s].pc # "done"
  /\ sess'[s].pc = "done"
  /\ sess'[s].outcome = o

\* every in-memory copy of message id satisfies the flag test
MemErrored(list, id) == \A i \in DOMAIN list : list[i].id = id => list[i].errored

\* C1 (as stated): when a turn completes, the persisted assistant content is
\* the exact concatenation, in arrival order, of every message.content delta
\* the stream carried.
C1_ExactConcatenation ==
  [][\A s \in Sessions :
       Ends(s, "completed") =>
         dbMessages'[sess[s].aiId].content = Concat(sess[s].received)]_vars

\* C2 (as stated): an abort that fires mid-stream after at least one delta
\* was accumulated leaves the persisted message canceled with the
\* accumulated text as its content, never empty.
C2_CancelKeepsPartial ==
  [][\A s \in Sessions :
       (Ends(s, "canceled") /\ sess[s].accumulatedText # <<>>) =>
         /\ dbMessages'[sess[s].aiId].canceled
         /\ dbMessages'[sess[s].aiId].content = sess[s].accumulatedText
         /\ dbMessages'[sess[s].aiId].content # <<>>]_vars

\* C3 (as stated): a non-abort failure after some deltas leaves the message
\* errored in memory and in the store, the persisted content being the
\* partial text, and the chat usable again.
C3_ErrorKeepsPartial ==
  [][\A s \in Sessions :
       (Ends(s, "errored") /\ sess[s].accumulatedText # <<>>) =>
         /\ dbMessages'[sess[s].aiId].errored
         /\ MemErrored(messages', sess[s].aiId)
         /\ dbMessages'[sess[s].aiId].content = sess[s].accumulatedText
         /\ ~isLoading']_vars

\* C4: a new turn answered with a non-OK HTTP status appends no delta; when
\* the session returns the placeholder still has content "" and
\* canceled = false, and errored = true once the error mark is stored.
C4_HttpErrorKeepsEmpty ==
  [][\A s \in Sessions :
       (sess[s].pc # "done" /\ sess'[s].pc = "done"
          /\ sess[s].regeneratedMessageId = 0 /\ sess[s].cause = "http") =>
         /\ sess[s].accumulatedText = <<>>
         /\ dbMessages'[sess[s].aiId].content = <<>>
         /\ ~dbMessages'[sess[s].aiId].canceled
         /\ dbMessages'[sess[s].aiId].errored = (sess'[s].outcome = "errored")
         /\ sess'[s].outcome = "errored" => MemErrored(messages', sess[s].aiId)]_vars

C4_Witness ==
  \E s \in Sessions :
    /\ sess[s].pc = "done" /\ sess[s].outcome = "errored"
    /\ sess[s].cause = "http" /\ sess[s].regeneratedMessageId = 0
    /\ dbMessages[sess[s].aiId].errored
    /\ dbMessages[sess[s].aiId].content = <<>>

\* C5: a new turn whose stream completes persists the user message with the
\* user's text first, then creates the empty assistant placeholder, then
\* fills the placeholder with the final content and canceled = errored =
\* regenerated = false.
C5_PersistenceOrder ==
  [][\A s \in Sessions :
       sess[s].regeneratedMessageId = 0 =>
         /\ (sess[s].userId = 0 /\ sess'[s].userId # 0) =>
              /\ sess'[s].aiId = 0
              /\ Len(dbMessages') = Len(dbMessages) + 1
              /\ sess'[s].userId = Len(dbMessages')
              /\ dbMessages'[sess'[s].userId].role = "user"
              /\ dbMessages'[sess'[s].userId].content = sess[s].message
         /\ (sess[s].aiId = 0 /\ sess'[s].aiId # 0) =>
              /\ sess[s].userId # 0
              /\ sess'[s].aiId > sess[s].userId
              /\ dbMessages'[sess[s].userId].content = sess[s].message
              /\ dbMessages'[sess'[s].aiId].role = "assistant"
              /\ dbMessages'[sess'[s].aiId].content = <<>>
         /\ Ends(s, "completed") =>
              /\ sess[s].userId # 0 /\ sess[s].aiId # 0
              /\ dbMessages[sess[s].aiId].role = "assistant"
              /\ dbMessages'[sess[s].aiId].content = Trim(sess[s].accumulatedText)
              /\ ~dbMessages'[sess[s].aiId].canceled
              /\ ~dbMessages'[sess[s].aiId].errored
              /\ ~dbMessages'[sess[s].aiId].regenerated]_vars

C5_Witness ==
  \E s \in Sessions :
    /\ sess[s].pc = "done" /\ sess[s].outcome = "completed"
    /\ sess[s].regeneratedMessageId = 0
    /\ dbMessages[sess[s].userId].role = "user"
    /\ dbMessages[sess[s].aiId].content # <<>>

\* the turns of the session's chat now in the table
HistoryOf(s) == ChatRows(dbMessages, sess[s].chatId, 1)

\* the message the session hands to the assembler
CurrentMessage(s) == ModelFacingText(sess[s].message, sess[s].files)

SingleUserTurn(s) ==
  /\ Len(sess[s].conversation) = 1
  /\ sess[s].conversation[1].role = "user"
  /\ sess[s].conversation[1].content = CurrentMessage(s)

\* C6: with use_memory off the assembled context is exactly the one turn
\* {role: "user", content: currentMessage}, for new turns and regenerations.
C6_MemoryOffSingleTurn ==
  \A s \in Sessions :
    (sess[s].pc = "fetch" /\ ~sess[s].useMemory) => SingleUserTurn(s)

C6_Witness ==
  \E s \in Sessions :
    /\ sess[s].pc = "fetch" /\ ~sess[s].useMemory
    /\ sess[s].regeneratedMessageId # 0
    /\ Len(HistoryOf(s)) >= 2
    /\ Len(sess[s].conversation) = 1

\* C7: with use_memory on and no history turn returned for the chat, the
\* assembled context is the single user turn and holds no system turn.
C7_EmptyHistorySingleTurn ==
  \A s \in Sessions :
    (sess[s].pc = "fetch" /\ sess[s].useMemory /\ sess[s].ctxFetch = "ok"
       /\ Len(HistoryOf(s)) = 0) =>
      /\ SingleUserTurn(s)
      /\ \A k \in DOMAIN sess[s].conversation : sess[s].conversation[k].role # "system"

C7_Witness ==
  \E s \in Sessions :
    /\ sess[s].pc = "fetch" /\ sess[s].useMemory /\ sess[s].ctxFetch = "ok"
    /\ Len(HistoryOf(s)) = 0
    /\ Len(dbMessages) > 0
    /\ Len(sess[s].conversation) = 1

Embedded == {dbEmbeddings[j].message_id : j \in DOMAIN dbEmbeddings}

\* C9: for every chat, query vector, candidatePoolSize and topK,
\* getSimilarMessages returns at most topK entries, and every returned entry
\* is a message of that chat that has a saved embedding.
C9_SimilarBounded ==
  simCall.op = "similar" =>
    /\ Len(simCall.rows) <= simCall.topK
    /\ \A k \in DOMAIN simCall.rows :
         LET id == simCall.rows[k].id IN
           /\ id \in DOMAIN dbMessages
           /\ dbMessages[id].chat_id = simCall.chatId
           /\ id \in Embedded
           /\ simCall.rows[k].role = dbMessages[id].role
           /\ simCall.rows[k].content = dbMessages[id].content

\* two candidates were scored and one was returned
C9_Witness ==
  /\ simCall.op = "similar"
  /\ simCall.topK = 1
  /\ Len(simCall.rows) = 1
  /\ Len(getMessagesWithEmbeddings(dbMessages, dbEmbeddings, simCall.chatId,
                                   simCall.limit)) = 2

IsZeroVector(v) == \A i \in DOMAIN v : v[i] = 0

\* a double within 2^-51 of 1
NearOne(d) ==
  /\ d.cls = "finite" /\ d.sign = 1
  /\ \/ d.e = 0 - MantissaBits /\ Geq(d.m, Sub(MantissaEnd, Big(4)))
     \/ d.e = 1 - MantissaBits /\ Geq(Inc(Inc(MantissaMin)), d.m)

\* C10 (as stated): cosineSimilarity(v, v) equals 1 for any non-zero v, and
\* cosineSimilarity(v, 0) equals 0 for any v.
C10_SelfSimilarityIsOne ==
  simCall.op = "cosine" =>
    /\ (simCall.vecA = simCall.vecB /\ ~IsZeroVector(simCall.vecA)) =>
         simCall.similarity = One
    /\ IsZeroVector(simCall.vecB) => simCall.similarity = Zero

\* C10 (amended): cosineSimilarity(v, v) is 1 up to the rounding of the
\* square roots, the product and the quotient: it lies within 2^-51 of 1.
\* When either argument has zero norm the result is exactly 0.
C10_SelfSimilarityNearOne ==
  simCall.op = "cosine" =>
    /\ (simCall.vecA = simCall.vecB /\ ~IsZeroVector(simCall.vecA)) =>
         NearOne(simCall.similarity)
    /\ (IsZeroVector(simCall.vecA) \/ IsZeroVector(simCall.vecB)) =>
         simCall.similarity = Zero

C10_Witness ==
  /\ simCall.op = "cosine"
  /\ simCall.vecA = simCall.vecB
  /\ ~IsZeroVector(simCall.vecA)
  /\ simCall.similarity # One
  /\ NearOne(simCall.similarity)

C12_RegenerationFrame ==
  [][\A s \in Sessions :
       (sess'[s].regeneratedMessageId # 0 /\ sess'[s] # sess[s]) =>
         LET target == sess'[s].regeneratedMessageId IN
           /\ Len(dbMessages') = Len(dbMessages)
           /\ \A i \in DOMAIN dbMessages :
                /\ i # target => dbMessages'[i] = dbMessages[i]
                /\ dbMessages'[i].chat_id = dbMessages[i].chat_id
                /\ dbMessages'[i].role = dbMessages[i].role
           /\ Len(messages') = Len(messages)
           /\ \A i \in DOMAIN messages :
                /\ messages'[i].id = messages[i].id
                /\ messages[i].id # target => messages'[i] = messages[i]
           /\ sess'[s].userId = 0
           /\ sess'[s].aiId \in {0, target}]_vars

\* a regeneration has completed and rewritten its target in place
C12_Witness ==
  \E s \in Sessions :
    /\ sess[s].pc = "done" /\ sess[s].outcome = "completed"
    /\ sess[s].regeneratedMessageId = 2
    /\ dbMessages[2].regenerated
    /\ Len(dbMessages) = 2

\* the invocations that were started and have not returned
Active == {s \in Sessions : sess[s].pc \notin {"idle", "done"}}

\* C13 (as stated): at any moment at most one session is active; no send
\* or regenerate starts while an earlier session, canceled or not, has
\* not yet returned.
C13_OneSessionAtATime == Cardinality(Active) <= 1

\* C15 (as stated): while a session that holds a controller is in flight
\* and has not been aborted, the abort-controller reference of the UI
\* state is that session's controller.
C15_ControllerIsOwn ==
  \A s \in Sessions :
    (sess[s].pc \in {"context", "fetch", "read", "update"} /\ ~sess[s].aborted) =>
      abortController = s

\* C14: every stored message references an existing chat, every stored
\* embedding references a stored message and every stored file upload
\* references an existing chat; so once deleteChat(c) has run no message,
\* embedding or upload of chat c is left, also when a message write or an
\* embedding save for chat c arrives after the deletion.
C14_CascadeAndReferences ==
  /\ \A i \in DOMAIN dbMessages :
       dbMessages[i] # NoMessage => dbMessages[i].chat_id \in dbChats
  /\ \A j \in DOMAIN dbEmbeddings :
       dbEmbeddings[j] # NoEmbedding => Stored(dbMessages, dbEmbeddings[j].message_id)
  /\ \A k \in DOMAIN dbFiles :
       dbFiles[k] # NoFile => dbFiles[k].chat_id \in dbChats
  /\ \A c \in ChatIds \ dbChats :
       /\ \A i \in DOMAIN dbMessages : dbMessages[i].chat_id # c
       /\ \A k \in DOMAIN dbFiles : dbFiles[k].chat_id # c

\* chat 1 was deleted with an embedding stored for one of its messages, and
\* an embedding save for a message of chat 1 arrived afterwards
C14_Witness ==
  /\ 1 \notin dbChats
  /\ 2 \in dbChats
  /\ dbMessages[1] = NoMessage
  /\ dbMessages[2] # NoMessage
  /\ \E j \in DOMAIN dbEmbeddings : dbEmbeddings[j] = NoEmbedding
  /\ simCall.op = "saveRejected"

\* the turns of the session's chat stored before message id, oldest first
RECURSIVE TurnsBefore(_, _, _)
TurnsBefore(s, id, i) ==
  IF i >= id THEN <<>>
  ELSE (IF dbMessages[i].chat_id = sess[s].chatId
        THEN <<[role |-> dbMessages[i].role, content |-> dbMessages[i].content]>>
        ELSE <<>>)
       \o TurnsBefore(s, id, i + 1)

\* the conversation without its leading system turn
WithoutSystem(conv) ==
  IF conv # <<>> /\ Head(conv).role = "system" THEN Tail(conv) ELSE conv

\* C16 (as stated): the context a regeneration sends to the model is made
\* only of turns that precede the target: after the system turn, if any,
\* it is the most recent of the turns stored before the target, without
\* the target's own content as a history turn or as a final turn.
C16_RegenerationOmitsTarget ==
  \A s \in Sessions :
    (sess[s].pc = "fetch" /\ sess[s].regeneratedMessageId # 0) =>
      LET turns == WithoutSystem(sess[s].conversation)
      IN  turns = LastN(TurnsBefore(s, sess[s].regeneratedMessageId, 1), Len(turns))

\* the history turns of a conversation: what lies between its first turn
\* and its last
HistoryTurns(conv) == SubSeq(conv, 2, Len(conv) - 1)

\* no other message of the session's chat has the text of its user message
UserTextIsNew(s) ==
  \A i \in DOMAIN dbMessages :
    (i # sess[s].userId /\ dbMessages[i].chat_id = sess[s].chatId) =>
      dbMessages[i].content # dbMessages[sess[s].userId].content

\* C17 (as stated): in a new turn with use_memory on and a successful
\* history fetch, the assembled context ends with the current user message
\* and the copy of it persisted just before is not among the history turns.
C17_CurrentMessageOnce ==
  [][\A s \in Sessions :
       (/\ sess[s].pc = "context" /\ sess'[s].pc = "fetch"
        /\ sess[s].regeneratedMessageId = 0
        /\ sess[s].useMemory /\ sess'[s].ctxFetch = "ok"
        /\ UserTextIsNew(s)) =>
         LET conv == sess'[s].conversation IN
           /\ conv[Len(conv)] = UserTurn(CurrentMessage(s))
           /\ \A k \in DOMAIN HistoryTurns(conv) :
                HistoryTurns(conv)[k] # UserTurn(dbMessages[sess[s].userId].content)]_vars

\* the turns of the most recent ContextLimit rows of the session's chat,
\* oldest first
RecentTurns(s) ==
  LET ids == LastN(HistoryOf(s), ContextLimit)
  IN  [k \in DOMAIN ids |->
         [role |-> dbMessages[ids[k]].role, content |-> dbMessages[ids[k]].content]]

\* C18: with use_memory on and at least one history turn fetched, the
\* context is one system instruction turn, then the fetched history turns
\* (at most ContextLimit) in chronological order, then the current user
\* message when isRegeneration is false and nothing when it is true.
C18_ContextOrder ==
  \A s \in Sessions :
    (/\ sess[s].pc = "fetch" /\ sess[s].useMemory /\ sess[s].ctxFetch = "ok"
     /\ HistoryOf(s) # <<>>) =>
      LET conv == sess[s].conversation IN
        /\ conv = <<[role |-> "system", content |-> SystemInstruction]>>
                    \o RecentTurns(s)
                    \o (IF sess[s].regeneratedMessageId # 0 THEN <<>>
                        ELSE <<UserTurn(CurrentMessage(s))>>)
        /\ Len(RecentTurns(s)) <= ContextLimit
        /\ Cardinality({k \in DOMAIN conv : conv[k].role = "system"}) = 1

\* a new turn in a chat longer than the window: system turn, ContextLimit
\* history turns, current message
C18_Witness ==
  \E s \in Sessions :
    /\ sess[s].pc = "fetch" /\ sess[s].useMemory /\ sess[s].ctxFetch = "ok"
    /\ sess[s].regeneratedMessageId = 0
    /\ Len(HistoryOf(s)) > ContextLimit
    /\ Len(sess[s].conversation) = ContextLimit + 2
    /\ sess[s].conversation[ContextLimit + 2] = UserTurn(CurrentMessage(s))

\* every in-memory copy of message id agrees with its stored row in
\* content, canceled and errored
MemEqualsStore(list, tbl, id) ==
  \A i \in DOMAIN list :
    list[i].id = id =>
      /\ list[i].content = tbl[id].content
      /\ list[i].canceled = tbl[id].canceled
      /\ list[i].errored = tbl[id].errored

\* C19 (as stated): when a session ends completed, canceled or errored and
\* no persistence call has failed, the in-memory copy of the target
\* assistant message equals its persisted row in content, canceled and
\* errored.
C19_MemoryEqualsStore ==
  [][\A s \in Sessions :
       (/\ sess[s].pc # "done" /\ sess'[s].pc = "done"
        /\ sess'[s].outcome \in {"completed", "canceled", "errored"}
        /\ sess'[s].cause # "persist") =>
         MemEqualsStore(messages', dbMessages', sess[s].aiId)]_vars

RECURSIVE ValidContents(_)
ValidContents(lines) ==
  IF lines = <<>> THEN <<>>
  ELSE IF Head(lines).valid
       THEN <<Head(lines).content>> \o ValidContents(Tail(lines))
       ELSE ValidContents(Tail(lines))

\* C21: a line that fails to parse is skipped: after every step of a turn
\* that is reading or has read its stream to the end, the accumulator is
\* the concatenation of the contents of the valid lines before and after
\* it, in order, and the update that completes the turn stores the trimmed
\* accumulator
C21_BadLineSkipped ==
  [][\A s \in Sessions :
       /\ sess'[s].pc \in {"read", "update"} =>
            sess'[s].accumulatedText = Concat(ValidContents(sess'[s].lines))
       /\ (sess[s].pc = "update" /\ sess'[s].outcome = "completed") =>
            dbMessages'[sess[s].aiId].content =
              Trim(Concat(ValidContents(sess[s].lines)))]_vars

\* the stream ended after an unparsable line came between two deltas, and
\* the turn is about to store both deltas
C21_Witness ==
  \E s \in Sessions :
    /\ sess[s].pc = "update"
    /\ sess[s].lines = <<[valid |-> TRUE, content |-> <<"a">>],
                         [valid |-> FALSE, content |-> <<>>],
                         [valid |-> TRUE, content |-> <<"a">>]>>
    /\ sess[s].accumulatedText = <<"a", "a">>
    /\ messages[Len(messages)].content = <<"a", "a">>

\* ---------------------------------------------------------------- C22
\* C22: when the context fetch fails the assembler does not raise: the turn
\* reaches the model request with a system prompt followed by the single
\* user turn that carries the current message
C22_FailureFallback ==
  \A s \in Sessions :
    (sess[s].pc = "fetch" /\ sess[s].ctxFetch = "failed") =>
      /\ Len(sess[s].conversation) = 2
      /\ sess[s].conversation[1].role = "system"
      /\ sess[s].conversation[2] = UserTurn(CurrentMessage(s))

\* ---------------------------------------------------------------- C23
\* C23: every started session eventually returns, when the user cancels
\* whatever the model connection leaves hanging
C23_EverySessionReturns ==
  \A s \in Sessions : (s \in Active) ~> (sess[s].pc = "done")

\* ---------------------------------------------------------------- C24
\* C24: the in-memory list is in creation order (ids ascending) and holds
\* no message twice, whatever page loads and turns came before
C24_OrderedNoDuplicates ==
  \A i, j \in DOMAIN messages : i < j => messages[i].id < messages[j].id

\* ---------------------------------------------------------------- C25
\* a step that applied the response of a page load of the selected chat
PageLoaded ==
  /\ sess' = sess
  /\ dbMessages' = dbMessages
  /\ currentChatId' # 0
  /\ <<currentChatId, messageOffset, hasMoreMessages>>'
       # <<currentChatId, messageOffset, hasMoreMessages>>

\* C25: a page load leaves hasMore true only if the next page, asked at
\* the new offset, returns at least one message
C25_HasMoreMeansMore ==
  [][(PageLoaded /\ hasMoreMessages') =>
       getChatMessages(dbMessages', currentChatId', PageSize, messageOffset') # <<>>]_vars

\* ---------------------------------------------------------------- C26
\* C26: every message of the in-memory list belongs to the selected chat
C26_ListOfSelectedChat ==
  \A i \in DOMAIN messages : messages[i].chat_id = currentChatId

\* ---------------------------------------------------------------- C27
\* C27: each message has at most one stored embedding, and
\* getSimilarMessages returns no message id twice
C27_OneEmbeddingPerMessage ==
  /\ \A i, j \in DOMAIN dbEmbeddings :
       (i # j /\ dbEmbeddings[i] # NoEmbedding /\ dbEmbeddings[j] # NoEmbedding) =>
         dbEmbeddings[i].message_id # dbEmbeddings[j].message_id
  /\ simCall.op = "similar" =>
       \A k, l \in DOMAIN simCall.rows :
         k # l => simCall.rows[k].id # simCall.rows[l].id

\* ---------------------------------------------------------------- C28
\* C28: a request starts an embedding only for a message it leaves with
\* non-blank content and neither canceled nor errored: the empty
\* placeholder starts none, nor does an update with blank content or with
\* a flag set; and an embedding is only ever saved by such a request
C28_EmbedsFinalContentOnly ==
  [][/\ \A id \in embedTasks' \ embedTasks :
          Stored(dbMessages', id) =>
            /\ Trim(dbMessages'[id].content) # <<>>
            /\ ~dbMessages'[id].canceled
            /\ ~dbMessages'[id].errored
     /\ Len(dbEmbeddings') > Len(dbEmbeddings) =>
          dbEmbeddings'[Len(dbEmbeddings')].message_id \in embedTasks]_vars

\* the placeholder was stored and then updated with text and canceled set;
\* neither request started an embedding, while the user message has one
C28_Witness ==
  /\ Len(dbMessages) = 2
  /\ dbMessages[1].role = "user" /\ 1 \in Embedded
  /\ dbMessages[2].role = "assistant"
  /\ dbMessages[2].content = <<"a">> /\ dbMessages[2].canceled
  /\ 2 \notin Embedded
  /\ embedTasks = {}

\* ---------------------------------------------------------------- C29
\* C29: the two flags are independent: a request that sets one leaves the
\* other as it was, and a flag is cleared only by the update that leaves
\* both false
C29_FlagsIndependent ==
  [][\A id \in DOMAIN dbMessages :
       (Stored(dbMessages, id) /\ Stored(dbMessages', id)) =>
         /\ (~dbMessages[id].canceled /\ dbMessages'[id].canceled) =>
              dbMessages'[id].errored = dbMessages[id].errored
         /\ (~dbMessages[id].errored /\ dbMessages'[id].errored) =>
              dbMessages'[id].canceled = dbMessages[id].canceled
         /\ ((dbMessages[id].canceled /\ ~dbMessages'[id].canceled)
               \/ (dbMessages[id].errored /\ ~dbMessages'[id].errored)) =>
              (~dbMessages'[id].canceled /\ ~dbMessages'[id].errored)]_vars

\* a stored message that is canceled and errored at once
C29_Witness ==
  \E id \in DOMAIN dbMessages :
    /\ Stored(dbMessages, id)
    /\ dbMessages[id].role = "assistant"
    /\ dbMessages[id].canceled /\ dbMessages[id].errored

\* ---------------------------------------------------------------- C30
\* C30: a message is stored with regenerated = false; the flag changes only
\* in the update that cleanly completes a turn targeting that message, and
\* it becomes true only if that turn is a regeneration of the message,
\* which is then an assistant message; a canceled or errored outcome
\* leaves it as it was
C30_RegeneratedOnlyByRegeneration ==
  [][\A id \in DOMAIN dbMessages' :
       IF id \in DOMAIN dbMessages
       THEN dbMessages'[id].regenerated # dbMessages[id].regenerated =>
              \E s \in Sessions :
                /\ sess[s].pc = "update"
                /\ sess[s].aiId = id
                /\ sess'[s].outcome = "completed"
                /\ dbMessages'[id].regenerated =>
                     /\ sess[s].regeneratedMessageId = id
                     /\ dbMessages'[id].role = "assistant"
       ELSE ~dbMessages'[id].regenerated]_vars

\* the regeneration of message 2 completed and the message is marked,
\* while the user message of the turn is not
C30_Witness ==
  \E s \in Sessions :
    /\ sess[s].outcome = "completed"
    /\ sess[s].regeneratedMessageId = 2
    /\ dbMessages[2].regenerated
    /\ ~dbMessages[1].regenerated

====
